---- MODULE Spec2Model ----
(***************************************************************************)
(* Model of CyberSecurityAgent (agentic_cybersec_pipeline.py): the         *)
(* three-node execution graph initiate -> process* -> complete over the    *)
(* CyberAuditData state (directive, job_queue, activity_logs,              *)
(* assessment_scope).                                                      *)
(*                                                                         *)
(* Text is modelled as a sequence of chunks (TLA+ strings): concatenation  *)
(* is \o, and Python's `needle in hay` is contiguous-subsequence           *)
(* containment.  str.lower() maps each chunk to its lower-case form.       *)
(***************************************************************************)
EXTENDS Integers, Sequences, FiniteSets, TLC

VARIABLES
    directive,         \* data["directive"]
    job_queue,         \* data["job_queue"]
    activity_logs,     \* data["activity_logs"]
    assessment_scope,  \* self.assessment_scope (also data["assessment_scope"])
    pc,                \* node of the execution graph about to run, or END / raised
    error,             \* the exception that left run(), "" when none
    executor,          \* which run_utility is bound: the built-in one or an injected one
    executed           \* history: the jobs popped so far, each with the executor's result

vars == <<directive, job_queue, activity_logs, assessment_scope, pc, error,
          executor, executed>>

----------------------------------------------------------------------------
(* Bounds and input sets *)

\* longest directive, in chunks, that Init enumerates
MaxDirLen == 5
\* longest injected executor output, in chunks
MaxOutLen == 2

DirectiveChunks == {"Scan", "scan", "ports", "discover", " ", "directories"}

Targets == {"a.com", "b.com"}

DomainLists == {<< >>, <<"a.com">>, <<"a.com", "b.com">>, <<"b.com", "a.com">>}

Scopes == {[domains |-> d, ips |-> <<"192.168.1.0/24">>] : d \in DomainLists}

SeqsUpTo(S, n) == UNION {[1..k -> S] : k \in 0..n}

\* the directive the UI builds for a domain (line 152)
UIDirective(domain) ==
    <<"Scan", " ", domain, " ", "for open ", "ports", " and ", "discover", " ",
      "directories">>

Directives == SeqsUpTo(DirectiveChunks, MaxDirLen) \cup {UIDirective(t) : t \in Targets}

\* directives of the runs with an injected executor: one per combination of
\* planning rules
InjectedDirectives ==
    {UIDirective("a.com"), <<"scan", " ", "ports">>, <<"ports", "Scan">>,
     <<"discover", " ", "directories">>, <<"discover", "directories">>, << >>}

OutputChunks == {"80/tcp", "443/tcp", "22/tcp"}

\* what an injected run_utility may do: return a text, or raise with a message
InjectedResults ==
    {[ok |-> TRUE, text |-> o] : o \in SeqsUpTo(OutputChunks, MaxOutLen)}
    \cup {[ok |-> FALSE, text |-> r] : r \in {<<"timeout">>, <<"80/tcp", " refused">>}}

----------------------------------------------------------------------------
(* Text helpers *)

\* Python: needle in hay
Contains(needle, hay) ==
    \E i \in 0..(Len(hay) - Len(needle)) :
        SubSeq(hay, i + 1, i + Len(needle)) = needle

LowerChunk(c) == IF c = "Scan" THEN "scan" ELSE c

\* variant: the directive is matched as typed
lower_asTyped(s) == s

\* Python: s.lower()
lower(s) == [i \in 1..Len(s) |-> LowerChunk(s[i])]

\* Python: str(dict) of a job, as interpolated by the f-string of line 87
JobText(job) ==
    <<"{'utility': '", job.utility, "', 'target': '", job.target,
      "', 'parameters': '", job.parameters, "'}">>

----------------------------------------------------------------------------
(* Jobs *)

\* variant: the port scan is planned for the UI's default domain
NmapJob_defaultTarget(target) ==
    [utility |-> "nmap", target |-> "google.com", parameters |-> "-Pn -p 80,443,22,8080"]

NmapJob(target) ==
    [utility |-> "nmap", target |-> target, parameters |-> "-Pn -p 80,443,22,8080"]

GobusterJob(target) ==
    [utility |-> "gobuster", target |-> target,
     parameters |-> "dir -u http://{target} -w /usr/share/wordlists/dirb/common.txt"]

----------------------------------------------------------------------------
(* The built-in executor *)

\* variant: the simulated scan reports the SSH port only
simulate_nmap_scan_sshOnly(target) ==
    <<"Starting Nmap scan on ", target, "...", "\n",
      "Scanning ports: 80, 443, 22, 8080", "\n",
      "Discovered open ports:", "\n",
      "22/tcp", "  - SSH", "\n",
      "Nmap scan completed.">>

simulate_nmap_scan(target) ==
    <<"Starting Nmap scan on ", target, "...", "\n",
      "Scanning ports: 80, 443, 22, 8080", "\n",
      "Discovered open ports:", "\n",
      "80/tcp", "  - HTTP", "\n",
      "443/tcp", " - HTTPS", "\n",
      "22/tcp", "  - SSH", "\n",
      "80", "80/tcp", " - HTTP-Alt", "\n",
      "Nmap scan completed.">>

simulate_gobuster_scan(target) ==
    <<"Starting Gobuster scan on ", target, "...", "\n",
      "Found directories:", "\n",
      "/admin", "\n", "/login", "\n", "/images", "\n", "/assets", "\n",
      "Gobuster scan completed.">>

run_utility(job) ==
    IF job.utility = "nmap" THEN simulate_nmap_scan(job.target)
    ELSE IF job.utility = "gobuster" THEN simulate_gobuster_scan(job.target)
    ELSE <<"Simulated output for ", job.utility, " on ", job.target,
           " with parameters ", job.parameters>>

\* the results self.run_utility(current_task) can give in this run
Results(job) ==
    IF executor = "builtin" THEN {[ok |-> TRUE, text |-> run_utility(job)]}
    ELSE InjectedResults

----------------------------------------------------------------------------
(* Graph nodes *)

\* variant: the graph always goes back to process
determine_next_alwaysProcess(queue) == "process"

\* variant: an empty queue sends the graph back to the planner
determine_next_replan(queue) == IF queue # << >> THEN "process" ELSE "initiate"

determine_next(queue) == IF queue # << >> THEN "process" ELSE "complete"

\* variant: either word is enough
ScanRule_either(d) == Contains(<<"scan">>, lower(d)) \/ Contains(<<"ports">>, lower(d))

ScanRule(d) == Contains(<<"scan">>, lower(d)) /\ Contains(<<"ports">>, lower(d))

DirRule(d) == Contains(<<"discover", " ", "directories">>, lower(d))

\* body of plan_jobs under `if not data["job_queue"]`, for a scope with a first domain
PlannedJobs(d, scope) ==
    (IF ScanRule(d) THEN <<NmapJob(scope.domains[1])>> ELSE << >>)
    \o (IF DirRule(d) THEN <<GobusterJob(scope.domains[1])>> ELSE << >>)

\* self.assessment_scope["domains"][0] raises IndexError on an empty list
PlanRaises(d, scope) == (ScanRule(d) \/ DirRule(d)) /\ scope.domains = << >>

\* variant: the planner appends without looking at the queue
PlanQueue_unguarded(queue, d, scope) == queue \o PlannedJobs(d, scope)

\* the queue plan_jobs leaves when it does not raise (lines 49-64)
PlanQueue(queue, d, scope) ==
    IF queue = << >> THEN queue \o PlannedJobs(d, scope) ELSE queue

plan_jobs ==
    /\ pc = "initiate"
    /\ IF job_queue = << >> /\ PlanRaises(directive, assessment_scope)
       THEN /\ pc' = "raised"
            /\ error' = "IndexError"
            /\ UNCHANGED job_queue
       ELSE /\ job_queue' = PlanQueue(job_queue, directive, assessment_scope)
            /\ pc' = determine_next(job_queue')
            /\ UNCHANGED error
    /\ UNCHANGED <<directive, activity_logs, assessment_scope, executor, executed>>

\* variant: one follow-on job per matching substring
FollowOn_perSubstring(task, output) ==
    IF task.utility = "nmap"
    THEN (IF Contains(<<"80/tcp">>, output) THEN <<GobusterJob(task.target)>> ELSE << >>)
         \o (IF Contains(<<"443/tcp">>, output) THEN <<GobusterJob(task.target)>> ELSE << >>)
    ELSE << >>

\* variant: the utility of the executed job is not looked at
FollowOn_anyUtility(task, output) ==
    IF Contains(<<"80/tcp">>, output) \/ Contains(<<"443/tcp">>, output)
    THEN <<GobusterJob(task.target)>>
    ELSE << >>

\* variant: the rule never fires
FollowOn_never(task, output) == << >>

\* variant: an open HTTP port queues another port scan of the target
FollowOn_rescan(task, output) ==
    IF Contains(<<"80/tcp">>, output) \/ Contains(<<"443/tcp">>, output)
    THEN <<NmapJob(task.target)>>
    ELSE << >>

\* the new jobs of lines 77-84 for a task that returned `output`
FollowOn(task, output) ==
    IF task.utility = "nmap"
       /\ (Contains(<<"80/tcp">>, output) \/ Contains(<<"443/tcp">>, output))
    THEN <<GobusterJob(task.target)>>
    ELSE << >>

\* the entry of line 87
FailureEntry(task, reason) == <<"Task failed: ">> \o JobText(task) \o <<" - ">> \o reason

\* variant: the branching rule runs after the try/except, on whatever text there is
TaskEffect_branchAfterExcept(task, rest, logs, res) ==
    IF res.ok
    THEN [queue |-> rest \o FollowOn(task, res.text),
          logs  |-> Append(logs, res.text)]
    ELSE [queue |-> rest \o FollowOn(task, res.text),
          logs  |-> Append(logs, FailureEntry(task, res.text))]

\* variant: a failure is reported to the process log only, not to activity_logs
TaskEffect_silentFailure(task, rest, logs, res) ==
    IF res.ok
    THEN [queue |-> rest \o FollowOn(task, res.text),
          logs  |-> Append(logs, res.text)]
    ELSE [queue |-> rest, logs |-> logs]

\* variant: the newest entry is put at the head of the log
TaskEffect_logFirst(task, rest, logs, res) ==
    IF res.ok
    THEN [queue |-> rest \o FollowOn(task, res.text),
          logs  |-> <<res.text>> \o logs]
    ELSE [queue |-> rest,
          logs  |-> <<FailureEntry(task, res.text)>> \o logs]

\* the try/except of lines 73-87 after the pop: the queue and the log it leaves
TaskEffect(task, rest, logs, res) ==
    IF res.ok
    THEN [queue |-> rest \o FollowOn(task, res.text),
          logs  |-> Append(logs, res.text)]
    ELSE [queue |-> rest,
          logs  |-> Append(logs, FailureEntry(task, res.text))]

\* variant: list.pop() with no index takes the last job
Pop_last(queue) ==
    [task |-> queue[Len(queue)], rest |-> SubSeq(queue, 1, Len(queue) - 1)]

\* data["job_queue"].pop(0) of line 71: the job taken and the queue left
Pop(queue) == [task |-> Head(queue), rest |-> Tail(queue)]

perform_task ==
    /\ pc = "process"
    /\ IF job_queue # << >>
       THEN \E res \in Results(Pop(job_queue).task) :
                LET current_task == Pop(job_queue).task
                    eff == TaskEffect(current_task, Pop(job_queue).rest,
                                      activity_logs, res)
                IN /\ job_queue' = eff.queue
                   /\ activity_logs' = eff.logs
                   /\ executed' = Append(executed, [job |-> current_task, res |-> res])
       ELSE UNCHANGED <<job_queue, activity_logs, executed>>
    /\ pc' = determine_next(job_queue')
    /\ UNCHANGED <<directive, assessment_scope, error, executor>>

\* the "complete" node returns the data as it is; invoke() then returns
complete ==
    /\ pc = "complete"
    /\ pc' = "END"
    /\ UNCHANGED <<directive, job_queue, activity_logs, assessment_scope, error,
                   executor, executed>>

----------------------------------------------------------------------------
(* Specifications *)

\* run(directive) on an agent built with a scope
InitData ==
    /\ job_queue = << >>
    /\ activity_logs = << >>
    /\ pc = "initiate"
    /\ error = ""
    /\ executed = << >>

Init ==
    /\ InitData
    /\ executor = "builtin"
    /\ directive \in Directives
    /\ assessment_scope \in Scopes

InitInjected ==
    /\ InitData
    /\ executor = "injected"
    /\ directive \in InjectedDirectives
    /\ assessment_scope \in Scopes

Next == plan_jobs \/ perform_task \/ complete

Spec == Init /\ [][Next]_vars

SpecInjected == InitInjected /\ [][Next]_vars

\* invoke() runs the graph to its end: a node that can run does run
FairSpecInjected == SpecInjected /\ WF_vars(Next)

----------------------------------------------------------------------------
(* Vocabulary of the properties, stated on the chunks themselves *)

Last(s) == s[Len(s)]

HasChunk(text, c) == \E i \in 1..Len(text) : text[i] = c

\* the directive mentions "scan" and "ports", in any letter case
MentionsScanAndPorts(d) ==
    /\ \E i \in 1..Len(d) : d[i] \in {"scan", "Scan"}
    /\ \E j \in 1..Len(d) : d[j] = "ports"

\* the directive holds the phrase "discover directories"
MentionsDiscoverDirectories(d) ==
    \E i \in 1..(Len(d) - 2) :
        d[i] = "discover" /\ d[i + 1] = " " /\ d[i + 2] = "directories"

\* this step popped and executed a job
ExecutesOne == pc = "process" /\ Len(executed') = Len(executed) + 1

\* the text shows an open HTTP port
ShowsHttpPort(text) == HasChunk(text, "80/tcp") \/ HasChunk(text, "443/tcp")

----------------------------------------------------------------------------
(* C1: a job whose executor raises does not abort the run (the graph moves *)
(* on to the next queued job, or to complete when none is left), adds no   *)
(* follow-on job, and appends exactly one log entry                        *)
(* "Task failed: <job> - <reason>".                                        *)
C1_FailureIsRecovered ==
    [][(ExecutesOne /\ ~Last(executed').res.ok) =>
        LET e == Last(executed')
        IN /\ e.job = Head(job_queue)
           /\ job_queue' = Tail(job_queue)
           /\ error' = ""
           /\ pc' = (IF Tail(job_queue) # << >> THEN "process" ELSE "complete")
           /\ Len(activity_logs') = Len(activity_logs) + 1
           /\ SubSeq(activity_logs', 1, Len(activity_logs)) = activity_logs
           /\ Last(activity_logs')
                = <<"Task failed: ">> \o JobText(e.job) \o <<" - ">> \o e.res.text
      ]_vars

\* a failed port scan was logged and the planned directory job is still to run
C1_Witness ==
    /\ Len(executed) = 1
    /\ ~executed[1].res.ok
    /\ executed[1].job.utility = "nmap"
    /\ executed[1].res.text = <<"80/tcp", " refused">>
    /\ pc = "process"
    /\ Len(job_queue) = 1
    /\ Len(activity_logs) = 1
    /\ activity_logs[1][1] = "Task failed: "

(* C2: run(directive) never lets an exception out, whatever the directive, *)
(* the scope (empty domains included) and the executor do.                 *)
C2_RunNeverRaises == pc # "raised" /\ error = ""

(* C3: when a planning rule matches and scope.domains is empty, planning   *)
(* emits no job and raises nothing: the run completes with an empty queue  *)
(* and an empty log.                                                       *)
C3_PlanningNoOp ==
    (/\ pc # "initiate"
     /\ assessment_scope.domains = << >>
     /\ MentionsScanAndPorts(directive) \/ MentionsDiscoverDirectories(directive))
    => (/\ pc \in {"complete", "END"}
        /\ error = ""
        /\ job_queue = << >>
        /\ activity_logs = << >>)
(* C4: a port scan that succeeds with an output holding "80/tcp" or        *)
(* "443/tcp" (one or both) appends exactly one directory-enumeration job   *)
(* for the same target at the back of the queue; the jobs already queued   *)
(* keep their content and order.                                           *)
C4_BranchOncePerOutput ==
    [][(/\ ExecutesOne
        /\ Last(executed').job.utility = "nmap"
        /\ Last(executed').res.ok
        /\ ShowsHttpPort(Last(executed').res.text)) =>
        LET e == Last(executed')
        IN /\ e.job = Head(job_queue)
           /\ Len(job_queue') = Len(Tail(job_queue)) + 1
           /\ SubSeq(job_queue', 1, Len(job_queue') - 1) = Tail(job_queue)
           /\ Last(job_queue').utility = "gobuster"
           /\ Last(job_queue').target = e.job.target
      ]_vars

\* a port scan returned both substrings while a directory job was already queued
C4_Witness ==
    /\ Len(executed) = 1
    /\ executed[1].job.utility = "nmap"
    /\ executed[1].res = [ok |-> TRUE, text |-> <<"80/tcp", "443/tcp">>]
    /\ Len(job_queue) = 2
    /\ job_queue[2].utility = "gobuster"
    /\ job_queue[2].target = executed[1].job.target

(* C5: a port scan whose output holds neither "80/tcp" nor "443/tcp", and  *)
(* any job that is not a port scan whatever its output holds, append       *)
(* nothing: the queue after the step is the queue before it without its    *)
(* front element.                                                          *)
C5_NoBranchOtherwise ==
    [][(/\ ExecutesOne
        /\ Last(executed').res.ok
        /\ \/ Last(executed').job.utility # "nmap"
           \/ ~ShowsHttpPort(Last(executed').res.text)) =>
        (Last(executed').job = Head(job_queue) /\ job_queue' = Tail(job_queue))
      ]_vars

\* a directory job whose output mentions 80/tcp ran and left the queue empty
C5_Witness ==
    /\ executed # << >>
    /\ Last(executed).job.utility = "gobuster"
    /\ Last(executed).res = [ok |-> TRUE, text |-> <<"80/tcp", "443/tcp">>]
    /\ job_queue = << >>
    /\ pc = "complete"

\* a port scan that shows only port 22 ran and the planned directory job remains
C5_WitnessScan ==
    /\ Len(executed) = 1
    /\ executed[1].job.utility = "nmap"
    /\ executed[1].res = [ok |-> TRUE, text |-> <<"22/tcp">>]
    /\ Len(job_queue) = 1

(* C6: the log has one entry per job executed so far, and its i-th entry   *)
(* is the one the i-th executed job produced: the output on success, the   *)
(* "Task failed" entry on failure.                                         *)
C6_LogMatchesExecution ==
    /\ Len(activity_logs) = Len(executed)
    /\ \A i \in 1..Len(executed) :
          activity_logs[i] =
            IF executed[i].res.ok
            THEN executed[i].res.text
            ELSE <<"Task failed: ">> \o JobText(executed[i].job) \o <<" - ">>
                 \o executed[i].res.text

\* three jobs ran, the branch-generated one last, with a failure in the middle
C6_Witness ==
    /\ pc = "END"
    /\ Len(executed) = 3
    /\ executed[1].res.ok
    /\ ~executed[2].res.ok
    /\ executed[3].res.ok
    /\ Len(activity_logs) = 3
    /\ activity_logs[1] # activity_logs[3]

(* C7: with a directive matching both planning rules, a scope whose first  *)
(* domain is d and the built-in executor: the planned queue is             *)
(* [port-scan(d), dir-enum(d)]; the port scan, whose output shows 80/tcp   *)
(* and 443/tcp, appends one more dir-enum(d) at the back; the final log    *)
(* has exactly 3 entries: port-scan output, dir-enum output, dir-enum      *)
(* output.                                                                 *)
C7_Scenario ==
    (/\ MentionsScanAndPorts(directive)
     /\ MentionsDiscoverDirectories(directive)
     /\ assessment_scope.domains # << >>
     /\ pc # "initiate") =>
        LET d  == assessment_scope.domains[1]
            ps == [utility |-> "nmap", target |-> d,
                   parameters |-> "-Pn -p 80,443,22,8080"]
            de == [utility |-> "gobuster", target |-> d,
                   parameters |->
                     "dir -u http://{target} -w /usr/share/wordlists/dirb/common.txt"]
        IN /\ Len(executed) = 0 => job_queue = <<ps, de>>
           /\ Len(executed) = 1 =>
                 /\ executed[1].job = ps
                 /\ HasChunk(executed[1].res.text, "80/tcp")
                 /\ HasChunk(executed[1].res.text, "443/tcp")
                 /\ job_queue = <<de, de>>
           /\ Len(executed) = 2 => job_queue = <<de>>
           /\ pc \in {"complete", "END"} =>
                 /\ Len(activity_logs) = 3
                 /\ [i \in 1..3 |-> executed[i].job] = <<ps, de, de>>
                 /\ activity_logs[1][1] = "Starting Nmap scan on "
                 /\ activity_logs[1][2] = d
                 /\ HasChunk(activity_logs[1], "80/tcp")
                 /\ HasChunk(activity_logs[1], "443/tcp")
                 /\ activity_logs[2][1] = "Starting Gobuster scan on "
                 /\ activity_logs[2][2] = d
                 /\ activity_logs[3] = activity_logs[2]

\* the UI's directive for a.com ran to its end on the scope [a.com]
C7_Witness ==
    /\ directive = UIDirective("a.com")
    /\ assessment_scope.domains = <<"a.com">>
    /\ pc = "END"
    /\ Len(activity_logs) = 3

(* C8: a directive that holds neither "scan" with "ports" nor "discover    *)
(* directories" (in any letter case) plans nothing: the graph goes from    *)
(* initiate to complete without running process, and the log stays empty.  *)
C8_NoRuleNoWork ==
    (/\ ~MentionsScanAndPorts(directive)
     /\ ~MentionsDiscoverDirectories(directive)) =>
        /\ pc \in {"initiate", "complete", "END"}
        /\ error = ""
        /\ job_queue = << >>
        /\ executed = << >>
        /\ activity_logs = << >>

\* a directive with "Scan" and with "discover", "directories" apart ended with no log
C8_Witness ==
    /\ HasChunk(directive, "Scan")
    /\ HasChunk(directive, "discover")
    /\ HasChunk(directive, "directories")
    /\ ~MentionsScanAndPorts(directive)
    /\ ~MentionsDiscoverDirectories(directive)
    /\ pc = "END"
    /\ activity_logs = << >>

(* C9: with non-empty domains, planning from the empty queue gives one     *)
(* port-scan job for domains[0] iff the directive holds "scan" and "ports" *)
(* (any letter case), followed by one directory-enumeration job for        *)
(* domains[0] iff it holds "discover directories", and nothing else.       *)
C9_PlanIsExact ==
    [][(pc = "initiate" /\ assessment_scope.domains # << >>) =>
        LET d  == assessment_scope.domains[1]
            a  == IF MentionsScanAndPorts(directive) THEN <<"nmap">> ELSE << >>
            b  == IF MentionsDiscoverDirectories(directive)
                  THEN <<"gobuster">> ELSE << >>
        IN /\ job_queue = << >>
           /\ Len(job_queue') = Len(a \o b)
           /\ [i \in 1..Len(job_queue') |-> job_queue'[i].utility] = a \o b
           /\ \A i \in 1..Len(job_queue') : job_queue'[i].target = d
      ]_vars

\* "Scan" in capitals with "ports" planned exactly one port scan, for the first domain
C9_Witness ==
    /\ HasChunk(directive, "Scan")
    /\ ~HasChunk(directive, "scan")
    /\ HasChunk(directive, "ports")
    /\ ~MentionsDiscoverDirectories(directive)
    /\ assessment_scope.domains = <<"b.com", "a.com">>
    /\ executed = << >>
    /\ pc = "process"
    /\ Len(job_queue) = 1
    /\ job_queue[1].utility = "nmap"
    /\ job_queue[1].target = "b.com"

(* C10: every run with non-empty domains reaches the end of the graph with *)
(* an empty queue, whatever the executor returns or raises for each job.   *)
C10_RunTerminates ==
    (assessment_scope.domains # << >>) => <>(pc = "END" /\ job_queue = << >>)

\* a run that executed a branch-generated job reached the end
C10_Witness ==
    /\ executor = "injected"
    /\ pc = "END"
    /\ job_queue = << >>
    /\ Len(executed) = 3

(* C11: every queued job and every executed job, planned or                *)
(* branch-generated, targets a member of the run's scope.domains.          *)
C11_TargetsInScope ==
    LET InScope(t) == \E k \in 1..Len(assessment_scope.domains) :
                          assessment_scope.domains[k] = t
    IN /\ \A i \in 1..Len(job_queue) : InScope(job_queue[i].target)
       /\ \A i \in 1..Len(executed) : InScope(executed[i].job.target)

\* on a two-domain scope a port scan ran and its follow-on job is queued behind
\* the planned one
C11_Witness ==
    /\ assessment_scope.domains = <<"b.com", "a.com">>
    /\ Len(executed) = 1
    /\ executed[1].job.utility = "nmap"
    /\ executed[1].job.target = "b.com"
    /\ Len(job_queue) = 2
    /\ job_queue[2].target = "b.com"

(* C12: planning is idempotent and touches nothing but the job list: the   *)
(* planning step leaves directive, scope and log as they were, and         *)
(* invoking the planner again on the data it returned, with the same       *)
(* directive and scope, gives the same job list.                           *)
C12_PlanIdempotent ==
    [][pc = "initiate" =>
        /\ directive' = directive
        /\ assessment_scope' = assessment_scope
        /\ activity_logs' = activity_logs
        /\ executed' = executed
        /\ pc' = "raised" => job_queue' = job_queue
        /\ pc' # "raised" =>
              PlanQueue(job_queue', directive', assessment_scope') = job_queue'
      ]_vars

\* planning produced both jobs and nothing else moved
C12_Witness ==
    /\ pc = "process"
    /\ executed = << >>
    /\ activity_logs = << >>
    /\ Len(job_queue) = 2
    /\ job_queue[1].utility = "nmap"
    /\ job_queue[2].utility = "gobuster"
    /\ Len(directive) = 5

\* the jobs in the order they have been or will be executed
Timeline == [i \in 1..Len(executed) |-> executed[i].job] \o job_queue

IsPrefix(s, t) == Len(s) <= Len(t) /\ SubSeq(t, 1, Len(s)) = s

(* C13: jobs execute strictly first-in first-out: each step executes the   *)
(* front job, new jobs go to the back only, so the sequence of executed    *)
(* jobs followed by the queued ones only ever grows at its end and a       *)
(* branch-generated job runs after every job queued before it.             *)
C13_StrictFifo ==
    [][/\ IsPrefix(Timeline, Timeline')
       /\ ExecutesOne =>
             /\ Last(executed').job = Head(job_queue)
             /\ IsPrefix(Tail(job_queue), job_queue')
      ]_vars

\* the planned directory job ran (and failed) before the branch-generated one,
\* which is still queued
C13_Witness ==
    /\ Len(executed) = 2
    /\ executed[1].job.utility = "nmap"
    /\ executed[1].res = [ok |-> TRUE, text |-> <<"443/tcp">>]
    /\ executed[2].job.utility = "gobuster"
    /\ ~executed[2].res.ok
    /\ Len(job_queue) = 1
    /\ pc = "process"

(* C14: the planner runs once, on the empty queue the run starts with; no  *)
(* step leads back to it, and every job that enters the queue afterwards   *)
(* is the follow-on job of perform_task's branching rule.                  *)
C14_PlanOnce ==
    [][/\ pc = "initiate" => (job_queue = << >> /\ executed = << >>)
       /\ pc' # "initiate"
       /\ (pc # "initiate" /\ job_queue' # job_queue /\ job_queue' # Tail(job_queue)) =>
             /\ ExecutesOne
             /\ Last(executed').job.utility = "nmap"
             /\ Last(executed').res.ok
             /\ ShowsHttpPort(Last(executed').res.text)
             /\ job_queue' = Tail(job_queue)
                   \o <<[utility |-> "gobuster",
                         target |-> Last(executed').job.target,
                         parameters |->
                           "dir -u http://{target} -w /usr/share/wordlists/dirb/common.txt"]>>
      ]_vars

\* a directive that plans the port scan only: after the first process step the
\* queue holds a directory job, which only the branching rule can have added
C14_Witness ==
    /\ directive = <<"scan", " ", "ports">>
    /\ Len(executed) = 1
    /\ pc = "process"
    /\ Len(job_queue) = 1
    /\ job_queue[1].utility = "gobuster"

\* the scheduler states: Planning, Dispatching, Done (the complete node before
\* and after it has run)
Planning == pc = "initiate"
Dispatching == pc = "process"
Done == pc \in {"complete", "END"}

(* C15: the scheduler is only ever Planning, Dispatching or Done; after    *)
(* the Planning step and after each Dispatching step it is Dispatching iff *)
(* job_queue is non-empty and Done iff it is empty; Done is never left,    *)
(* and in Done the queue is empty and the log no longer changes.           *)
C15_StateMachine ==
    [][/\ Planning \/ Dispatching \/ Done
       /\ (Planning \/ Dispatching) =>
             /\ job_queue' # << >> => Dispatching'
             /\ job_queue' = << >> => Done'
       /\ Done =>
             /\ Done'
             /\ job_queue = << >>
             /\ job_queue' = job_queue
             /\ activity_logs' = activity_logs
      ]_vars

\* the same statement for the runs whose scope has a first domain
C15_StateMachineWithDomain ==
    [][assessment_scope.domains # << >> =>
        /\ Planning \/ Dispatching \/ Done
        /\ (Planning \/ Dispatching) =>
              /\ job_queue' # << >> => Dispatching'
              /\ job_queue' = << >> => Done'
        /\ Done =>
              /\ Done'
              /\ job_queue = << >>
              /\ job_queue' = job_queue
              /\ activity_logs' = activity_logs
      ]_vars

(* C16: activity_logs is append-only: over every step the old log is a     *)
(* prefix of the new one; the Planning step appends nothing and each       *)
(* Dispatching step appends exactly one entry.                             *)
C16_LogAppendOnly ==
    [][/\ IsPrefix(activity_logs, activity_logs')
       /\ pc = "initiate" => activity_logs' = activity_logs
       /\ pc = "process" => Len(activity_logs') = Len(activity_logs) + 1
      ]_vars

\* a second, different entry was appended behind the first
C16_Witness ==
    /\ Len(activity_logs) = 2
    /\ activity_logs[1] = <<"80/tcp">>
    /\ activity_logs[2] = <<"22/tcp", "443/tcp">>
    /\ pc = "process"

(* C17: no step changes the directive or the assessment scope; a           *)
(* Dispatching step changes only job_queue (its front is removed and at    *)
(* most one job is appended) and activity_logs (one entry is appended).    *)
C17_Frame ==
    [][/\ directive' = directive
       /\ assessment_scope' = assessment_scope
       /\ pc = "process" =>
             /\ error' = error
             /\ executor' = executor
             /\ IsPrefix(Tail(job_queue), job_queue')
             /\ Len(job_queue') <= Len(Tail(job_queue)) + 1
             /\ IsPrefix(activity_logs, activity_logs')
             /\ Len(activity_logs') = Len(activity_logs) + 1
      ]_vars

\* two Dispatching steps later the run still holds the directive and scope it
\* was started with
C17_Witness ==
    /\ Len(executed) = 2
    /\ executed[1].res = [ok |-> TRUE, text |-> <<"80/tcp", "443/tcp">>]
    /\ ~executed[2].res.ok
    /\ directive = UIDirective("a.com")
    /\ assessment_scope = [domains |-> <<"a.com", "b.com">>, ips |-> <<"192.168.1.0/24">>]
    /\ Len(job_queue) = 1

(* C18: expansion is bounded: only the first job of a run can be a port    *)
(* scan, every later job (planned or branch-generated) is a directory      *)
(* enumeration, which never queues a follow-on; so a run executes at most  *)
(* 3 jobs, at most one of them a port scan, and the queue never holds      *)
(* more than 2 jobs.                                                       *)
C18_BoundedExpansion ==
    /\ Len(executed) <= 3
    /\ Len(job_queue) <= 2
    /\ Len(Timeline) <= 3
    /\ \A i \in 2..Len(Timeline) : Timeline[i].utility = "gobuster"
    /\ \A i \in 1..Len(Timeline) : Timeline[i].utility \in {"nmap", "gobuster"}
    /\ Len(Timeline) = 3 => Timeline[1].utility = "nmap"

\* three jobs ran; both directory jobs returned texts with HTTP ports and the
\* queue is empty all the same
C18_Witness ==
    /\ pc = "END"
    /\ Len(executed) = 3
    /\ executed[2].job.utility = "gobuster"
    /\ executed[2].res = [ok |-> TRUE, text |-> <<"80/tcp">>]
    /\ executed[3].job.utility = "gobuster"
    /\ executed[3].res = [ok |-> TRUE, text |-> <<"443/tcp", "80/tcp">>]
    /\ job_queue = << >>

(* C19: with the built-in executor and non-empty domains no job fails and  *)
(* every executed port scan queues a follow-on: a directive that triggers  *)
(* the port-scan rule only ends with exactly 2 log entries (port-scan      *)
(* output, then directory-enumeration output), one that triggers the       *)
(* directory rule only ends with exactly 1, and no log entry is a          *)
(* "Task failed:" entry.                                                   *)
C19_BuiltinRuns ==
    (executor = "builtin" /\ assessment_scope.domains # << >>) =>
        LET d    == assessment_scope.domains[1]
            scan == MentionsScanAndPorts(directive)
            dirs == MentionsDiscoverDirectories(directive)
        IN /\ \A i \in 1..Len(executed) : executed[i].res.ok
           /\ \A i \in 1..Len(activity_logs) :
                 ~HasChunk(activity_logs[i], "Task failed: ")
           /\ (Len(executed) >= 1 /\ executed[1].job.utility = "nmap") =>
                 /\ Len(Timeline) = (IF dirs THEN 3 ELSE 2)
                 /\ Timeline[Len(Timeline)].utility = "gobuster"
                 /\ Timeline[Len(Timeline)].target = executed[1].job.target
           /\ (Done /\ scan /\ ~dirs) =>
                 /\ Len(activity_logs) = 2
                 /\ activity_logs[1][1] = "Starting Nmap scan on "
                 /\ activity_logs[1][2] = d
                 /\ activity_logs[2][1] = "Starting Gobuster scan on "
                 /\ activity_logs[2][2] = d
           /\ (Done /\ dirs /\ ~scan) =>
                 /\ Len(activity_logs) = 1
                 /\ activity_logs[1][1] = "Starting Gobuster scan on "
                 /\ activity_logs[1][2] = d

\* "Scan ports" on [b.com, a.com] ended with the two entries
C19_Witness ==
    /\ executor = "builtin"
    /\ directive = <<"Scan", " ", "ports">>
    /\ assessment_scope.domains = <<"b.com", "a.com">>
    /\ pc = "END"
    /\ Len(activity_logs) = 2

\* "discover directories" alone ended with one entry
C19_WitnessDirectories ==
    /\ executor = "builtin"
    /\ directive = <<"discover", " ", "directories">>
    /\ assessment_scope.domains = <<"a.com">>
    /\ pc = "END"
    /\ Len(activity_logs) = 1

====
